---- MODULE Spec2Model ----
(***************************************************************************)
(* HealthAnalyzer (src/health_analyzer.py) and the dashboard script        *)
(* (src/main.py).  A pandas DataFrame is a record [cols, rows]: cols is    *)
(* the sequence of column labels, rows the sequence of rows, each a        *)
(* sequence of cells aligned with cols.                                    *)
(*                                                                         *)
(* A cell is [t, s, n]:  t = "str" (a text cell, s its text),              *)
(* t = "num" (a number n), t = "ts" (a timestamp, n = days since           *)
(* 2020-01-01), t = "na" (NaN / NaT / empty CSV cell).                     *)
(***************************************************************************)
EXTENDS Integers, Sequences, FiniteSets, TLC

VARIABLES raw, df, status, ncalls, prev, res, mainpc, filt

vars == <<raw, df, status, ncalls, prev, res, mainpc, filt>>

\* ------------------------------------------------------------------ bounds
MaxRows == 3
MaxCleans == 2

\* ------------------------------------------------------------------- cells
Str(x) == [t |-> "str", s |-> x, n |-> 0]
Num(k) == [t |-> "num", s |-> "", n |-> k]
Ts(d) == [t |-> "ts", s |-> "", n |-> d]
NA == [t |-> "na", s |-> "", n |-> 0]

IsNA(c) == c.t = "na"

\* ------------------------------------------------------- sequence helpers
Range(s) == {s[i] : i \in DOMAIN s}

IndexOf(s, x) == CHOOSE i \in DOMAIN s : s[i] = x /\ \A j \in 1..(i - 1) : s[j] # x

RECURSIVE SeqsUpTo(_, _)
SeqsUpTo(S, k) ==
    IF k = 0 THEN {<<>>}
    ELSE LET shorter == SeqsUpTo(S, k - 1)
         IN  shorter \cup {Append(q, x) : q \in {p \in shorter : Len(p) = k - 1}, x \in S}

RECURSIVE Product(_)
Product(doms) ==
    IF doms = <<>> THEN {<<>>}
    ELSE {<<x>> \o rest : x \in Head(doms), rest \in Product(Tail(doms))}

\* ------------------------------------------------------ DataFrame helpers
HasCol(t, c) == c \in Range(t.cols)

ColIdx(t, c) == IndexOf(t.cols, c)

Cell(t, i, c) == t.rows[i][ColIdx(t, c)]

NRows(t) == Len(t.rows)

\* df[c] = f(df[c]) : elementwise replacement of a column's cells
MapCol(t, c, F(_)) ==
    LET k == ColIdx(t, c)
    IN  [t EXCEPT !.rows = [i \in DOMAIN t.rows |->
                              [t.rows[i] EXCEPT ![k] = F(t.rows[i][k])]]]

\* df[c] = values : overwrite the column in place when the label exists,
\* append a new last column otherwise (DataFrame.__setitem__)
SetCol(t, c, vals) ==
    IF HasCol(t, c)
    THEN LET k == ColIdx(t, c)
         IN  [t EXCEPT !.rows = [i \in DOMAIN t.rows |->
                                   [t.rows[i] EXCEPT ![k] = vals[i]]]]
    ELSE [cols |-> Append(t.cols, c),
          rows |-> [i \in DOMAIN t.rows |-> Append(t.rows[i], vals[i])]]

\* ------------------------------------------------- str.strip().lower()
\* The text universe of the model is finite; each conversion is the table of
\* what the Python string method returns on it.
StripLower(x) ==
    CASE x = " Admission_Date" -> "admission_date"
      [] x = "Admit_Date" -> "admit_date"
      [] x = "Discharge_Date " -> "discharge_date"
      [] x = "Outcome " -> "outcome"
      [] x = "AGE" -> "age"
      [] x = "Discharge " -> "discharge"
      [] x = "Death" -> "death"
      [] x = "A" -> "a"
      [] x = "B" -> "b"
      [] x = "C" -> "c"
      [] x = "F" -> "f"
      [] x = "M" -> "m"
      [] x = "Unknown" -> "unknown"
      [] x = "P1" -> "p1"
      [] x = "P2" -> "p2"
      [] x = "n/a" -> "n/a"
      [] OTHER -> x

\* [c.strip().lower() for c in df.columns]                         (line 28)
NormalizeColumns(t) == [t EXCEPT !.cols = [k \in DOMAIN t.cols |-> StripLower(t.cols[k])]]

AdmissionAliases == <<"admission_date", "admit_date", "date_admitted">>
DischargeAliases == <<"discharge_date", "date_discharged">>

\* for col in aliases: if col in df.columns: rename(col -> canonical); break
RECURSIVE RenameFirstAlias(_, _, _)
RenameFirstAlias(t, aliases, canonical) ==
    IF aliases = <<>> THEN t
    ELSE IF HasCol(t, Head(aliases))
         THEN [t EXCEPT !.cols = [j \in DOMAIN t.cols |->
                   IF t.cols[j] = Head(aliases) THEN canonical ELSE t.cols[j]]]
         ELSE RenameFirstAlias(t, Tail(aliases), canonical)

\* pd.to_datetime(errors="coerce"), on ISO date-only text: the day number
\* (days since 2020-01-01), NaT for anything unparseable; a timestamp is
\* returned as it is.
ParseDate(x) ==
    CASE x = "2020-01-30" -> Ts(29)
      [] x = "2020-02-02" -> Ts(32)
      [] x = "2020-04-01" -> Ts(91)
      [] OTHER -> NA

ToDatetimeTextOnly(c) == IF c.t = "str" THEN ParseDate(c.s) ELSE NA

ToDatetime(c) ==
    CASE c.t = "ts" -> c
      [] c.t = "str" -> ParseDate(c.s)
      [] c.t = "na" -> NA

\* pd.to_numeric(errors="coerce")
ParseNum(x) ==
    CASE x = "2" -> Num(2)
      [] x = "4" -> Num(4)
      [] x = "5" -> Num(5)
      [] x = "7" -> Num(7)
      [] x = "34" -> Num(34)
      [] OTHER -> NA

ToNumeric(c) ==
    CASE c.t = "num" -> c
      [] c.t = "str" -> ParseNum(c.s)
      [] c.t = "na" -> NA

\* astype(str).str.lower().str.strip(): a missing cell becomes the text "nan"
OutcomeLabel(c) ==
    CASE c.t = "str" -> Str(StripLower(c.s))
      [] c.t = "na" -> Str("nan")

\* fillna("Unknown")
FillUnknown(c) == IF IsNA(c) THEN Str("Unknown") ELSE c

\* (discharge - admission).dt.days : NaT when either side is NaT
StayDaysSwapped(a, d) == IF IsNA(a) \/ IsNA(d) THEN NA ELSE Num(a.n - d.n)

StayDays(a, d) == IF IsNA(a) \/ IsNA(d) THEN NA ELSE Num(d.n - a.n)

LengthOfStay(t) ==
    [i \in DOMAIN t.rows |-> StayDays(Cell(t, i, "admission_date"), Cell(t, i, "discharge_date"))]

MapIf(t, c, F(_)) == IF HasCol(t, c) THEN MapCol(t, c, F) ELSE t

\* clean_data, lines 28-65: every step mutates self.df in place
CleanInPlace(t) ==
    LET t1 == NormalizeColumns(t)
        t2 == RenameFirstAlias(t1, AdmissionAliases, "admission_date")
        t3 == RenameFirstAlias(t2, DischargeAliases, "discharge_date")
        t4 == MapIf(t3, "admission_date", ToDatetime)
        t5 == MapIf(t4, "discharge_date", ToDatetime)
        t6 == MapIf(t5, "outcome", OutcomeLabel)
        t7 == MapIf(t6, "age", ToNumeric)
        t8 == MapIf(t7, "satisfaction", ToNumeric)
        t9 == IF HasCol(t8, "admission_date") /\ HasCol(t8, "discharge_date")
              THEN SetCol(t8, "length_of_stay", LengthOfStay(t8))
              ELSE t8
        t10 == MapIf(t9, "department", FillUnknown)
    IN  MapIf(t10, "gender", FillUnknown)

\* DataFrame.drop_duplicates(subset, keep="first"): NaN/NaT keys compare equal
KeyOf(t, row, subset) == [k \in DOMAIN subset |-> row[ColIdx(t, subset[k])]]

RECURSIVE KeepFirst(_, _, _, _)
KeepFirst(t, rows, subset, seen) ==
    IF rows = <<>> THEN <<>>
    ELSE LET key == KeyOf(t, Head(rows), subset)
         IN  IF key \in seen
             THEN KeepFirst(t, Tail(rows), subset, seen)
             ELSE <<Head(rows)>> \o KeepFirst(t, Tail(rows), subset, seen \cup {key})

Reverse(s) == [i \in DOMAIN s |-> s[Len(s) + 1 - i]]

DropDuplicatesKeepLast(t, subset) ==
    [t EXCEPT !.rows = Reverse(KeepFirst(t, Reverse(t.rows), subset, {}))]

DropDuplicates(t, subset) == [t EXCEPT !.rows = KeepFirst(t, t.rows, subset, {})]

DedupSubset == <<"patient_id", "admission_date">>

\* drop_duplicates raises KeyError when a label of subset is not a column;
\* on a frame without rows it returns a copy before it looks at subset
DedupRaises(t) == HasCol(t, "patient_id") /\ ~HasCol(t, "admission_date") /\ NRows(t) > 0

Dedup(t) ==
    IF HasCol(t, "patient_id") THEN DropDuplicates(t, DedupSubset)
    ELSE DropDuplicates(t, t.cols)

NoResult == [op |-> "none", args |-> <<>>, outcome |-> "none", value |-> <<>>]

\* --------------------------------------------------------------- actions
\* HealthAnalyzer.clean_data
CleanData ==
    /\ mainpc = "lib"
    /\ ncalls < MaxCleans
    /\ LET t == CleanInPlace(df)
       IN  IF DedupRaises(t)
           THEN df' = t /\ status' = "raised"
           ELSE df' = Dedup(t) /\ status' = "returned"
    /\ prev' = df
    /\ ncalls' = ncalls + 1
    /\ UNCHANGED <<raw, res, mainpc, filt>>

\* ------------------------------------------------------- query helpers
\* Python's order of the text values a group key can take in the model
\* (str comparison is by code point: upper case before lower case)
StrOrder == <<"A", "B", "F", "Unknown", "death", "discharge", "nan">>

KeyRank(c) == IndexOf(StrOrder, c.s)

RECURSIVE SortedKeys(_)
SortedKeys(S) ==
    IF S = {} THEN <<>>
    ELSE LET m == CHOOSE x \in S : \A y \in S : KeyRank(x) <= KeyRank(y)
         IN  <<m>> \o SortedKeys(S \ {m})

RowsWhere(t, c, v) == {i \in DOMAIN t.rows : Cell(t, i, c) = v}

ColValues(t, c) == {Cell(t, i, c) : i \in DOMAIN t.rows}

RECURSIVE SumFun(_, _)
SumFun(f, S) ==
    IF S = {} THEN 0
    ELSE LET x == CHOOSE x \in S : TRUE IN f[x] + SumFun(f, S \ {x})

\* Series.value_counts(dropna=False): one bucket per distinct value, NaN too
ValueCounts(t, c) == [v \in ColValues(t, c) |-> Cardinality(RowsWhere(t, c, v))]

\* counts / counts.sum(): a fraction num/den; den = 0 stands for NaN
PctOfDistinct(counts) ==
    [v \in DOMAIN counts |-> [num |-> counts[v], den |-> Cardinality(DOMAIN counts)]]

Pct(counts) ==
    [v \in DOMAIN counts |-> [num |-> counts[v], den |-> SumFun(counts, DOMAIN counts)]]

\* groupby(c): the distinct non-missing keys, in ascending key order
GroupKeys(t, c) == SortedKeys(ColValues(t, c) \ {NA})

\* groupby(by)["outcome"].value_counts().unstack(fill_value=0)
GroupedCounts(t, by) ==
    LET live == {i \in DOMAIN t.rows : ~IsNA(Cell(t, i, by)) /\ ~IsNA(Cell(t, i, "outcome"))}
        gs == {Cell(t, i, by) : i \in live}
        os == {Cell(t, i, "outcome") : i \in live}
    IN  [g \in gs |-> [o \in os |->
            Cardinality({i \in live : Cell(t, i, by) = g /\ Cell(t, i, "outcome") = o})]]

\* grouped.div(grouped.sum(axis=1), axis=0)
GroupedPct(grouped) ==
    [g \in DOMAIN grouped |-> [o \in DOMAIN grouped[g] |->
        [num |-> grouped[g][o], den |-> SumFun(grouped[g], DOMAIN grouped[g])]]]

Whole(k) == [num |-> k, den |-> 1]

IsNaN(x) == x.den = 0

\* groupby(c).size()
GroupSizes(t, c) ==
    LET ks == GroupKeys(t, c)
    IN  [j \in DOMAIN ks |-> [key |-> ks[j], val |-> Whole(Cardinality(RowsWhere(t, c, ks[j])))]]

\* groupby(c)[v].mean(): NaN cells are skipped, a group of none has mean NaN
MeanOf(t, idx, v) ==
    LET live == {i \in idx : ~IsNA(Cell(t, i, v))}
        val == [i \in live |-> Cell(t, i, v).n]
    IN  [num |-> SumFun(val, live), den |-> Cardinality(live)]

GroupMeans(t, c, v) ==
    LET ks == GroupKeys(t, c)
    IN  [j \in DOMAIN ks |-> [key |-> ks[j], val |-> MeanOf(t, RowsWhere(t, c, ks[j]), v)]]

\* x may stand before y in descending order, NaN last
MayPrecede(x, y) ==
    IF IsNaN(y) THEN TRUE
    ELSE IF IsNaN(x) THEN FALSE
    ELSE x.num * y.den >= y.num * x.den

Arrangements(entries) ==
    {[i \in DOMAIN entries |-> entries[p[i]]] : p \in Permutations(DOMAIN entries)}

\* Series.sort_values(ascending=False): kind defaults to "quicksort", which is
\* not stable, so every descending arrangement is a possible outcome
SortValuesAscending(entries) ==
    {s \in Arrangements(entries) :
        \A i, j \in DOMAIN s : i < j => MayPrecede(s[j].val, s[i].val)}

SortValuesDescending(entries) ==
    {s \in Arrangements(entries) :
        \A i, j \in DOMAIN s : i < j => MayPrecede(s[i].val, s[j].val)}

\* calendar months of 2020: the day number (from 0) on which month k starts
MonthStart == <<0, 31, 60, 91, 121, 152, 182, 213, 244, 274, 305, 335>>

MonthOf(d) == Cardinality({k \in DOMAIN MonthStart : MonthStart[k] <= d}) - 1

\* the bucket of a timestamp at a resampling frequency
PeriodOf(freq, d) == IF freq = "M" THEN MonthOf(d) ELSE d

KnownDays(t) ==
    {Cell(t, i, "admission_date").n : i \in {k \in DOMAIN t.rows : ~IsNA(Cell(t, k, "admission_date"))}}

BucketCount(t, freq, p) ==
    Cardinality({i \in DOMAIN t.rows :
        /\ ~IsNA(Cell(t, i, "admission_date"))
        /\ PeriodOf(freq, Cell(t, i, "admission_date").n) = p})

RECURSIVE Consecutive(_, _)
Consecutive(lo, hi) == IF lo > hi THEN <<>> ELSE <<lo>> \o Consecutive(lo + 1, hi)

\* set_index("admission_date").resample(freq).size(): the bins run from the
\* period of the earliest to the period of the latest timestamp (date_range
\* at freq), NaT rows fall in no bin
OccupiedBuckets(t, freq) ==
    LET ps == {PeriodOf(freq, d) : d \in KnownDays(t)}
        lo == CHOOSE p \in ps : \A q \in ps : p <= q
        hi == CHOOSE p \in ps : \A q \in ps : q <= p
    IN  SelectSeq([j \in DOMAIN Consecutive(lo, hi) |->
                     [period |-> Consecutive(lo, hi)[j],
                      count |-> BucketCount(t, freq, Consecutive(lo, hi)[j])]],
                  LAMBDA e : e.count > 0)

ResampleSize(t, freq) ==
    LET ps == {PeriodOf(freq, d) : d \in KnownDays(t)}
        lo == CHOOSE p \in ps : \A q \in ps : p <= q
        hi == CHOOSE p \in ps : \A q \in ps : q <= p
        bins == Consecutive(lo, hi)
    IN  [j \in DOMAIN bins |-> [period |-> bins[j], count |-> BucketCount(t, freq, bins[j])]]

Result(op, args, outcome, value) ==
    [op |-> op, args |-> args, outcome |-> outcome, value |-> value]

Raised(op, args, err) == Result(op, args, "raised", err)

Returned(op, args, value) == Result(op, args, "returned", value)

\* a query is called on the table clean_data has returned, one call at a
\* time: its result is held in res until the caller has taken it
Queryable == mainpc = "lib" /\ status = "returned" /\ res.op = "none"

\* --------------------------------------------------------------- queries
\* HealthAnalyzer.summarize_outcomes(by); by = "" is by=None
SummarizeOutcomesOn(t, by) ==
    LET args == <<by>>
    IN  IF by # ""
        THEN IF ~HasCol(t, by) \/ ~HasCol(t, "outcome")
             THEN Raised("summarize_outcomes", args, "KeyError")
             ELSE Returned("summarize_outcomes", args,
                           [counts |-> GroupedCounts(t, by),
                            pct |-> GroupedPct(GroupedCounts(t, by))])
        ELSE IF ~HasCol(t, "outcome")
             THEN Raised("summarize_outcomes", args, "KeyError")
             ELSE Returned("summarize_outcomes", args,
                           [counts |-> ValueCounts(t, "outcome"),
                            pct |-> Pct(ValueCounts(t, "outcome"))])

SummarizeOutcomes(by) ==
    /\ Queryable
    /\ res' = SummarizeOutcomesOn(df, by)
    /\ UNCHANGED <<raw, df, status, ncalls, prev, mainpc, filt>>

\* HealthAnalyzer.aggregate_by(column, agg, value_col); value_col = "" is None
AggregateOutcomes(t, column, agg, value_col) ==
    LET args == <<column, agg, value_col>>
    IN  IF ~HasCol(t, column)
        THEN {Raised("aggregate_by", args, "KeyError")}
        ELSE IF agg = "count"
        THEN {Returned("aggregate_by", args, s) : s \in SortValuesDescending(GroupSizes(t, column))}
        ELSE IF agg = "mean" /\ value_col # ""
        THEN IF ~HasCol(t, value_col)
             THEN {Raised("aggregate_by", args, "KeyError")}
             ELSE {Returned("aggregate_by", args, s) :
                      s \in SortValuesDescending(GroupMeans(t, column, value_col))}
        ELSE {Returned("aggregate_by", args, GroupSizes(t, column))}

AggregateBy(column, agg, value_col) ==
    /\ Queryable
    /\ res' \in AggregateOutcomes(df, column, agg, value_col)
    /\ UNCHANGED <<raw, df, status, ncalls, prev, mainpc, filt>>

\* HealthAnalyzer.admissions_over_time(freq).  With rows but no known
\* timestamp the bin edges are NaT: the library either rejects them or
\* returns the empty series, depending on its version.
AdmissionsOutcomes(t, freq) ==
    LET args == <<freq>>
    IN  IF ~HasCol(t, "admission_date")
        THEN {Raised("admissions_over_time", args, "ValueError")}
        ELSE IF NRows(t) = 0
        THEN {Returned("admissions_over_time", args, <<>>)}
        ELSE IF KnownDays(t) = {}
        THEN {Raised("admissions_over_time", args, "ValueError"),
              Returned("admissions_over_time", args, <<>>)}
        ELSE {Returned("admissions_over_time", args, ResampleSize(t, freq))}

AdmissionsOverTime(freq) ==
    /\ Queryable
    /\ res' \in AdmissionsOutcomes(df, freq)
    /\ UNCHANGED <<raw, df, status, ncalls, prev, mainpc, filt>>

\* HealthAnalyzer.average_satisfaction_by_department
AverageSatisfactionUnguarded(t) ==
    IF ~HasCol(t, "satisfaction") \/ ~HasCol(t, "department")
    THEN {Raised("average_satisfaction_by_department", <<>>, "KeyError")}
    ELSE {Returned("average_satisfaction_by_department", <<>>, s) :
             s \in SortValuesDescending(GroupMeans(t, "department", "satisfaction"))}

AverageSatisfactionOutcomes(t) ==
    IF ~HasCol(t, "satisfaction") \/ ~HasCol(t, "department")
    THEN {Returned("average_satisfaction_by_department", <<>>, <<>>)}
    ELSE {Returned("average_satisfaction_by_department", <<>>, s) :
             s \in SortValuesDescending(GroupMeans(t, "department", "satisfaction"))}

AverageSatisfactionByDepartment ==
    /\ Queryable
    /\ res' \in AverageSatisfactionOutcomes(df)
    /\ UNCHANGED <<raw, df, status, ncalls, prev, mainpc, filt>>

\* ---------------------------------------------------------------- charts
NoChart == [kind |-> "none", data |-> <<>>]

Chart(kind, data) == [kind |-> kind, data |-> data]

\* HealthAnalyzer.plot_outcomes_by_age_hist(age_bin_width)
PlotOutcomesByAgeHistOn(t, width) ==
    LET args == <<width>>
        op == "plot_outcomes_by_age_hist"
    IN  IF HasCol(t, "age")
        THEN IF ~HasCol(t, "outcome")
             THEN Raised(op, args, "KeyError")
             ELSE LET kept == SelectSeq(t.rows, LAMBDA r :
                                  /\ ~IsNA(r[ColIdx(t, "age")])
                                  /\ ~IsNA(r[ColIdx(t, "outcome")]))
                  IN  IF kept = <<>>
                      THEN Returned(op, args, NoChart)
                      ELSE Returned(op, args, Chart("bar",
                               [i \in DOMAIN kept |->
                                   [age_bin |-> (kept[i][ColIdx(t, "age")].n \div width) * width,
                                    outcome |-> kept[i][ColIdx(t, "outcome")]]]))
        ELSE Returned(op, args, NoChart)

PlotOutcomesByAgeHist(width) ==
    /\ Queryable
    /\ res' = PlotOutcomesByAgeHistOn(df, width)
    /\ UNCHANGED <<raw, df, status, ncalls, prev, mainpc, filt>>

\* HealthAnalyzer.plot_admissions_over_time(freq): no branch returns None
PlotAdmissionsOutcomes(t, freq) ==
    {IF o.outcome = "raised"
     THEN Raised("plot_admissions_over_time", <<freq>>, o.value)
     ELSE Returned("plot_admissions_over_time", <<freq>>, Chart("line", o.value)) :
        o \in AdmissionsOutcomes(t, freq)}

PlotAdmissionsOverTime(freq) ==
    /\ Queryable
    /\ res' \in PlotAdmissionsOutcomes(df, freq)
    /\ UNCHANGED <<raw, df, status, ncalls, prev, mainpc, filt>>

\* HealthAnalyzer.plot_satisfaction_by_department
PlotSatisfactionOutcomes(t) ==
    {IF o.value = <<>>
     THEN Returned("plot_satisfaction_by_department", <<>>, NoChart)
     ELSE Returned("plot_satisfaction_by_department", <<>>, Chart("bar", o.value)) :
        o \in AverageSatisfactionOutcomes(t)}

PlotSatisfactionByDepartment ==
    /\ Queryable
    /\ res' \in PlotSatisfactionOutcomes(df)
    /\ UNCHANGED <<raw, df, status, ncalls, prev, mainpc, filt>>

\* the caller takes the result of the last query
TakeResult ==
    /\ mainpc = "lib"
    /\ res.op # "none"
    /\ res' = NoResult
    /\ UNCHANGED <<raw, df, status, ncalls, prev, mainpc, filt>>

\* ----------------------------------------------------------- raw tables
Domain(h) ==
    LET c == StripLower(h)
    IN  CASE c = "patient_id" -> {Str("P1"), Str("P2")}
          [] c \in Range(AdmissionAliases) -> {Str("2020-01-30"), Str("2020-04-01"), Str("bad")}
          [] c \in Range(DischargeAliases) -> {Str("2020-02-02"), Str("2020-01-30"), NA}
          [] c = "outcome" -> {Str("Discharge "), Str("discharge"), Str("death"), NA}
          [] c = "age" -> {Str("34"), Str("7"), Str("n/a")}
          [] c = "gender" -> {Str("F"), NA}
          [] c = "department" -> {Str("B"), Str("A"), NA}
          [] c = "satisfaction" -> {Str("4"), Str("2"), Str("x")}
          [] c = "length_of_stay" -> {Str("7")}

RawTables(headers) ==
    {[cols |-> headers, rows |-> rws] :
        rws \in SeqsUpTo(Product([k \in DOMAIN headers |-> Domain(headers[k])]), MaxRows)}

CleanerHeaders ==
    { <<"patient_id", "admission_date", "gender">>,
      <<"patient_id", "gender">>,
      <<"Outcome ", "gender">>,
      <<" Admission_Date", "Discharge_Date ">>,
      <<"admit_date", "date_discharged">>,
      <<"date_admitted", "Admit_Date">>,
      <<"AGE">>,
      <<"length_of_stay", "date_discharged">>,
      <<"length_of_stay", "date_admitted", "discharge_date">> }

InitWith(t) ==
    /\ raw = t
    /\ df = t
    /\ status = "new"
    /\ ncalls = 0
    /\ prev = t
    /\ res = NoResult
    /\ mainpc = "lib"
    /\ filt = <<>>

InitClean == \E h \in CleanerHeaders : \E t \in RawTables(h) : InitWith(t)

NextClean == CleanData

SpecClean == InitClean /\ [][NextClean]_vars

\* ------------------------------------------------------- the aggregator
QueryHeaders ==
    { <<"outcome">>,
      <<"gender", "outcome">>,
      <<"department", "satisfaction">>,
      <<"department">>,
      <<"satisfaction">>,
      <<"admission_date">>,
      <<"age", "gender">>,
      <<"AGE", "Outcome ">> }

GroupByArgs == {"", "gender"}
GroupColumns == {"department", "outcome"}
AggArgs == {<<"count", "">>, <<"mean", "satisfaction">>, <<"size", "">>}
Frequencies == {"M", "D"}
BinWidths == {5, 10}

InitQuery == \E h \in QueryHeaders : \E t \in RawTables(h) : InitWith(t)

\* the table is cleaned once, on load, and queried from then on
NextQuery ==
    \/ (ncalls = 0 /\ CleanData)
    \/ \E by \in GroupByArgs : SummarizeOutcomes(by)
    \/ \E c \in GroupColumns, a \in AggArgs : AggregateBy(c, a[1], a[2])
    \/ \E f \in Frequencies : AdmissionsOverTime(f)
    \/ AverageSatisfactionByDepartment
    \/ \E w \in BinWidths : PlotOutcomesByAgeHist(w)
    \/ \E f \in Frequencies : PlotAdmissionsOverTime(f)
    \/ PlotSatisfactionByDepartment
    \/ TakeResult

SpecQuery == InitQuery /\ [][NextQuery]_vars

\* ------------------------------------------------- the dashboard script
MainHeaders ==
    <<"patient_id", "admission_date", "discharge_date", "outcome",
      "age", "gender", "department", "satisfaction">>

OptionalColumns ==
    {"age", "gender", "department", "satisfaction",
     "admission_date", "discharge_date", "patient_id"}

\* records as an upload or generate_sample_data supplies them
SampleRecords ==
    { <<Str("P1"), Str("2020-01-30"), Str("2020-02-02"), Str("Discharge "),
        Str("34"), Str("F"), Str("A"), Str("4")>>,
      <<Str("P2"), Str("2020-04-01"), NA, Str("death"),
        Str("7"), NA, Str("B"), Str("2")>>,
      <<Str("P1"), Str("2020-01-30"), Str("2020-02-02"), Str("death"),
        Str("n/a"), Str("F"), NA, Str("x")>>,
      <<Str("P2"), Str("bad"), Str("2020-01-30"), NA,
        Str("34"), NA, Str("B"), Str("4")>> }

\* the table with only the columns at the given positions
Project(t, keep) ==
    [cols |-> [j \in DOMAIN keep |-> t.cols[keep[j]]],
     rows |-> [i \in DOMAIN t.rows |-> [j \in DOMAIN keep |-> t.rows[i][keep[j]]]]]

Without(t, dropped) ==
    Project(t, SelectSeq([k \in DOMAIN t.cols |-> k], LAMBDA k : t.cols[k] \notin dropped))

MainTables ==
    {Without([cols |-> MainHeaders, rows |-> rws], dropped) :
        rws \in SeqsUpTo(SampleRecords, MaxRows),
        dropped \in SUBSET (OptionalColumns \cup {"outcome"})}

InitMain ==
    \E t \in MainTables :
        /\ raw = t
        /\ df = t
        /\ status = "new"
        /\ ncalls = 0
        /\ prev = t
        /\ res = NoResult
        /\ mainpc = "clean"
        /\ filt = <<>>

\* the script stops at the first exception: the step, the error and the
\* column (if any) whose absence raised it
Crash(step, err, column) ==
    /\ mainpc' = "crashed"
    /\ res' = Result(step, <<column>>, "raised", err)

\* main.py 52-53: ha = HealthAnalyzer(df); ha.clean_data()
MainClean ==
    /\ mainpc = "clean"
    /\ LET t == CleanInPlace(df)
       IN  IF DedupRaises(t)
           THEN /\ df' = t
                /\ status' = "raised"
                /\ Crash("clean_data", "KeyError", "admission_date")
           ELSE /\ df' = Dedup(t)
                /\ status' = "returned"
                /\ mainpc' = "filters"
                /\ res' = NoResult
    /\ prev' = df
    /\ ncalls' = ncalls + 1
    /\ UNCHANGED <<raw, filt>>

KnownNumbers(t, c) == {Cell(t, i, c).n : i \in {k \in DOMAIN t.rows : ~IsNA(Cell(t, k, c))}}

SetMin(S) == CHOOSE x \in S : \A y \in S : x <= y

SetMax(S) == CHOOSE x \in S : \A y \in S : y <= x

Smaller(a, b) == IF a <= b THEN a ELSE b

SliderMax == 120

\* the positions the user can leave the age slider at (its default first)
AgeRanges(lo, hi) == {<<lo, hi>>, <<0, SliderMax>>, <<0, lo>>}

\* main.py 62: the rows passing the three filters (NaN compares false)
FilterRows(t, ar, genders, departments) ==
    [t EXCEPT !.rows = SelectSeq(t.rows, LAMBDA r :
        /\ ~IsNA(r[ColIdx(t, "age")])
        /\ r[ColIdx(t, "age")].n >= ar[1]
        /\ r[ColIdx(t, "age")].n <= ar[2]
        /\ r[ColIdx(t, "gender")] \in genders
        /\ r[ColIdx(t, "department")] \in departments)]

\* main.py 57-62: the sidebar filters and df_filtered.  In line 57 the
\* conditional binds to the second tuple element only, so ha.df["age"] is
\* evaluated before "age" in ha.df.columns is looked at.
MainFilters ==
    /\ mainpc = "filters"
    /\ IF ~HasCol(df, "age")
       THEN Crash("filters", "KeyError", "age") /\ filt' = filt
       ELSE IF KnownNumbers(df, "age") = {}
       THEN Crash("filters", "ValueError", "") /\ filt' = filt
       ELSE IF ~HasCol(df, "gender")
       THEN Crash("filters", "KeyError", "gender") /\ filt' = filt
       ELSE IF ~HasCol(df, "department")
       THEN Crash("filters", "KeyError", "department") /\ filt' = filt
       ELSE \E ar \in AgeRanges(SetMin(KnownNumbers(df, "age")),
                                Smaller(SetMax(KnownNumbers(df, "age")), SliderMax)) :
            \E sg \in SUBSET ColValues(df, "gender") :
            \E sd \in SUBSET ColValues(df, "department") :
               /\ filt' = FilterRows(df, ar, sg, sd)
               /\ mainpc' = "chart1"
               /\ res' = NoResult
    /\ UNCHANGED <<raw, df, status, ncalls, prev>>

AgeBinWidth == 10

\* main.py 66-72: outcome distribution by age
MainChart1 ==
    /\ mainpc = "chart1"
    /\ LET r == PlotOutcomesByAgeHistOn(filt, AgeBinWidth)
       IN  IF r.outcome = "raised"
           THEN Crash("chart1", r.value, "outcome")
           ELSE mainpc' = "chart2" /\ res' = r
    /\ UNCHANGED <<raw, df, status, ncalls, prev, filt>>

\* main.py 74-80: admissions over time
MainChart2 ==
    /\ mainpc = "chart2"
    /\ \E r \in PlotAdmissionsOutcomes(filt, "M") :
          IF r.outcome = "raised"
          THEN Crash("chart2", r.value,
                     IF HasCol(filt, "admission_date") THEN "" ELSE "admission_date")
          ELSE mainpc' = "chart3" /\ res' = r
    /\ UNCHANGED <<raw, df, status, ncalls, prev, filt>>

\* main.py 82-87: average satisfaction by department
MainChart3 ==
    /\ mainpc = "chart3"
    /\ \E r \in PlotSatisfactionOutcomes(filt) :
          mainpc' = "summary" /\ res' = r
    /\ UNCHANGED <<raw, df, status, ncalls, prev, filt>>

\* main.py 89-96: the outcome summary and the data sample
MainSummary ==
    /\ mainpc = "summary"
    /\ LET r == SummarizeOutcomesOn(filt, "")
       IN  IF r.outcome = "raised"
           THEN Crash("summary", r.value, "outcome")
           ELSE mainpc' = "done" /\ res' = r
    /\ UNCHANGED <<raw, df, status, ncalls, prev, filt>>

NextMain ==
    \/ MainClean
    \/ MainFilters
    \/ MainChart1
    \/ MainChart2
    \/ MainChart3
    \/ MainSummary

SpecMain == InitMain /\ [][NextMain]_vars

\* ------------------------------------------------------------ properties
Cleaned == ncalls > 0 /\ status = "returned"

\* the table as clean_data has normalised it, before rows are dropped
Normalised == CleanInPlace(prev)

PairOf(t, row) == <<row[ColIdx(t, "patient_id")], row[ColIdx(t, "admission_date")]>>

SameEntity(t, r1, r2) ==
    IF HasCol(t, "patient_id") THEN PairOf(t, r1) = PairOf(t, r2) ELSE r1 = r2

Earliest(t) ==
    {i \in DOMAIN t.rows : \A j \in 1..(i - 1) : ~SameEntity(t, t.rows[j], t.rows[i])}

\* C1: after clean_data has returned, no two rows of the held table share
\* (patient_id, admission_date) when patient_id is a column, and no two rows
\* are identical otherwise; of the normalised input rows exactly the earliest
\* of each such group is kept, in input order.
C1_Deduplicated ==
    Cleaned =>
        LET input == Normalised
            kept == Earliest(input)
        IN  /\ \A a, b \in DOMAIN df.rows : a < b => ~SameEntity(df, df.rows[a], df.rows[b])
            /\ Len(df.rows) = Cardinality(kept)
            /\ \A i \in kept : df.rows[Cardinality({j \in kept : j <= i})] = input.rows[i]

C1_Witness ==
    /\ Cleaned
    /\ ncalls = 1
    /\ HasCol(df, "patient_id")
    /\ Len(raw.rows) = 3
    /\ Len(df.rows) = 2
    /\ LET input == Normalised
       IN  /\ SameEntity(input, input.rows[1], input.rows[3])
           /\ input.rows[1] # input.rows[3]
           /\ df.rows[1] = input.rows[1]

\* C2: a second clean_data leaves the held table as the first one left it:
\* same column labels, same cells, same rows in the same order.
C2_Idempotent == ncalls >= 2 => df = prev

C2_Witness ==
    /\ ncalls = 2
    /\ status = "returned"
    /\ df = prev
    /\ HasCol(df, "length_of_stay")
    /\ raw.cols # df.cols
    /\ Len(df.rows) < Len(raw.rows)
    /\ Len(df.rows) >= 2

Coerced(t, c, kind) ==
    HasCol(t, c) => \A i \in DOMAIN t.rows : Cell(t, i, c).t \in {kind, "na"}

\* C3: clean_data completes on every raw table without raising, and leaves
\* every date, age and satisfaction cell parsed or unknown.
C3_CleanDataTotal ==
    ncalls > 0 =>
        /\ status = "returned"
        /\ Coerced(df, "admission_date", "ts")
        /\ Coerced(df, "discharge_date", "ts")
        /\ Coerced(df, "age", "num")
        /\ Coerced(df, "satisfaction", "num")

BothDates(t) == HasCol(t, "admission_date") /\ HasCol(t, "discharge_date")

StayIsDifference(t) ==
    \A i \in DOMAIN t.rows :
        LET a == Cell(t, i, "admission_date")
            d == Cell(t, i, "discharge_date")
            l == Cell(t, i, "length_of_stay")
        IN  IF a.t = "ts" /\ d.t = "ts"
            THEN l.t = "num" /\ l.n = d.n - a.n /\ (d.n >= a.n => l.n >= 0)
            ELSE l = NA

SuppliedLengthOfStay == \E k \in DOMAIN raw.cols : StripLower(raw.cols[k]) = "length_of_stay"

Answered(op) == res.op = op /\ res.outcome = "returned"

\* C5: summarize_outcomes() without a grouping key returns one count per
\* distinct outcome of the cleaned table (a missing outcome in a bucket of
\* its own); the counts sum to the number of rows, each percentage is
\* count / rows, and the percentages sum to 1 when there is a row.
C5_OutcomeCounts ==
    (Answered("summarize_outcomes") /\ res.args = <<"">>) =>
        LET counts == res.value.counts
            pct == res.value.pct
            nums == [v \in DOMAIN pct |-> pct[v].num]
        IN  /\ DOMAIN counts = ColValues(df, "outcome")
            /\ \A v \in DOMAIN counts : counts[v] = Cardinality(RowsWhere(df, "outcome", v))
            /\ SumFun(counts, DOMAIN counts) = NRows(df)
            /\ DOMAIN pct = DOMAIN counts
            /\ \A v \in DOMAIN pct : pct[v] = [num |-> counts[v], den |-> NRows(df)]
            /\ NRows(df) >= 1 =>
                  \A v \in DOMAIN pct : pct[v].den > 0 /\ SumFun(nums, DOMAIN pct) = pct[v].den

C5_Witness ==
    /\ Answered("summarize_outcomes")
    /\ res.args = <<"">>
    /\ NRows(df) = 3
    /\ Str("nan") \in DOMAIN res.value.counts
    /\ \E v \in DOMAIN res.value.counts : res.value.counts[v] = 2
    /\ \E i \in DOMAIN raw.rows : raw.rows[i][ColIdx(NormalizeColumns(raw), "outcome")] = NA

\* C6: admissions_over_time(freq) returns one entry for every period from
\* the period of the earliest to the period of the latest known admission
\* date, consecutive and without gaps; each count is the number of rows
\* whose admission date lies in the period, 0 for a period with none.
C6_DenseBuckets ==
    Answered("admissions_over_time") =>
        LET f == res.args[1]
            s == res.value
            known == {i \in DOMAIN df.rows : Cell(df, i, "admission_date").t = "ts"}
            ps == {PeriodOf(f, Cell(df, i, "admission_date").n) : i \in known}
        IN  IF ps = {} THEN s = <<>>
            ELSE /\ Len(s) = SetMax(ps) - SetMin(ps) + 1
                 /\ \A j \in DOMAIN s :
                       /\ s[j].period = SetMin(ps) + j - 1
                       /\ s[j].count = Cardinality({i \in known :
                              PeriodOf(f, Cell(df, i, "admission_date").n) = s[j].period})

C6_Witness ==
    /\ Answered("admissions_over_time")
    /\ res.args = <<"M">>
    /\ Len(res.value) = 4
    /\ res.value[1].count = 1
    /\ res.value[2].count = 0
    /\ res.value[3].count = 0
    /\ res.value[4].count = 1
    /\ NRows(df) = 3

Sorting == Answered("aggregate_by") /\ res.args[2] \in {"count", "mean"}

GroupValue(key) ==
    IF res.args[2] = "count"
    THEN Whole(Cardinality(RowsWhere(df, res.args[1], key)))
    ELSE LET live == {i \in RowsWhere(df, res.args[1], key) : Cell(df, i, res.args[3]).t = "num"}
             val == [i \in live |-> Cell(df, i, res.args[3]).n]
         IN  [num |-> SumFun(val, live), den |-> Cardinality(live)]

OnePerGroup(s) ==
    /\ {s[j].key : j \in DOMAIN s} = ColValues(df, res.args[1]) \ {NA}
    /\ \A i, j \in DOMAIN s : i # j => s[i].key # s[j].key
    /\ \A j \in DOMAIN s : s[j].val = GroupValue(s[j].key)

Ordered(s) == \A i, j \in DOMAIN s : i < j => MayPrecede(s[i].val, s[j].val)

SameValue(x, y) == ~IsNaN(x) /\ ~IsNaN(y) /\ x.num * y.den = y.num * x.den

FirstSeen(key) == SetMin(RowsWhere(df, res.args[1], key))

\* C7 as claimed: aggregate_by count / mean returns one entry per group in
\* descending order of value, and groups of equal value stand in the order
\* in which they are first met in the rows of the table.
C7_StableDescending ==
    Sorting =>
        /\ OnePerGroup(res.value)
        /\ Ordered(res.value)
        /\ \A i, j \in DOMAIN res.value :
              (i < j /\ SameValue(res.value[i].val, res.value[j].val))
                  => FirstSeen(res.value[i].key) < FirstSeen(res.value[j].key)

\* C7 as amended: aggregate_by count / mean returns one entry per distinct
\* non-missing group key, holding the size / mean of that group, in
\* descending order of value (a group without a mean last); nothing is
\* promised about the order of groups of equal value.
C7_Descending == Sorting => (OnePerGroup(res.value) /\ Ordered(res.value))

C7_Witness ==
    /\ Sorting
    /\ res.args = <<"department", "mean", "satisfaction">>
    /\ Len(res.value) = 2
    /\ res.value[1] = [key |-> Str("B"), val |-> [num |-> 4, den |-> 1]]
    /\ res.value[2] = [key |-> Str("A"), val |-> [num |-> 6, den |-> 2]]

PlotOps ==
    {"plot_outcomes_by_age_hist", "plot_admissions_over_time", "plot_satisfaction_by_department"}

PlotNeeds(op) ==
    CASE op = "plot_outcomes_by_age_hist" -> {"age", "outcome"}
      [] op = "plot_admissions_over_time" -> {"admission_date"}
      [] op = "plot_satisfaction_by_department" -> {"satisfaction", "department"}

\* C8: each charting function returns the no-chart result, and does not
\* raise, when a column it needs is absent or the table has no rows.
C8_NoChartInsteadOfRaising ==
    (res.op \in PlotOps /\ ((\E c \in PlotNeeds(res.op) : ~HasCol(df, c)) \/ NRows(df) = 0)) =>
        (res.outcome = "returned" /\ res.value = NoChart)

\* C9: on a table lacking a column the query needs, summarize_outcomes,
\* aggregate_by and admissions_over_time raise an error and return nothing;
\* average_satisfaction_by_department alone returns an empty result and
\* raises nothing.
C9_MissingColumnSignals ==
    /\ (res.op = "summarize_outcomes"
          /\ (~HasCol(df, "outcome") \/ (res.args[1] # "" /\ ~HasCol(df, res.args[1]))))
       => res.outcome = "raised"
    /\ (res.op = "aggregate_by"
          /\ (~HasCol(df, res.args[1]) \/ (res.args[2] = "mean" /\ ~HasCol(df, res.args[3]))))
       => res.outcome = "raised"
    /\ (res.op = "admissions_over_time" /\ ~HasCol(df, "admission_date"))
       => res.outcome = "raised"
    /\ (res.op = "average_satisfaction_by_department"
          /\ (~HasCol(df, "satisfaction") \/ ~HasCol(df, "department")))
       => (res.outcome = "returned" /\ res.value = <<>>)

C9_Witness ==
    /\ Answered("average_satisfaction_by_department")
    /\ HasCol(df, "department")
    /\ ~HasCol(df, "satisfaction")
    /\ NRows(df) >= 2
    /\ res.value = <<>>

\* C10: a dashboard run on a table that has rows and lacks one optional
\* column (age, gender, department, satisfaction, admission_date,
\* discharge_date or patient_id) is never ended by the absence of that
\* column: the steps that do not read it are produced.  Stated here for the
\* runs in which clean_data has returned.
MissingOptional == {c \in OptionalColumns : ~HasCol(raw, c)}

C10_OptionalColumnsOnlyDisable ==
    (mainpc = "crashed" /\ NRows(raw) > 0 /\ HasCol(raw, "outcome")
        /\ Cardinality(MissingOptional) = 1 /\ status = "returned")
        => res.args[1] \notin OptionalColumns
====
